---- MODULE Spec2Model ----
(***************************************************************************)
(* debugito: an interactive ptrace debugger (src/src/main.rs) and its      *)
(* DWARF resolver (src/src/dwarf.rs).                                      *)
(*                                                                         *)
(* Spec      the session: load / breakpoint / run / continue / print on a  *)
(*           ProgramContext, together with the traced child's memory and   *)
(*           instruction pointer.                                          *)
(* SpecDwarf DwarfInfo::get_breakpoints_from_dwarf applied to bounded line *)
(*           programs.                                                     *)
(* SpecAddr  the address translation of setup_breakpoint and its inverse   *)
(*           applied to bounded (va, base, off).                           *)
(* SpecSteps the handlers of run, continue and print taken one call on the *)
(*           child at a time.                                              *)
(* SpecWalk  DwarfInfo::get_variable_info applied to bounded DIE trees.    *)
(*                                                                         *)
(* Representation.  An Address (u64) is a number modulo 2^AddrBits.  A     *)
(* machine word (the i64 of ptrace::read / ptrace::write) is the sequence  *)
(* of its 8 bytes, least significant first, so that word[1] is the byte at *)
(* the address read.  A path is the sequence of its components, each one   *)
(* character long; a command argument is a sequence of characters.         *)
(***************************************************************************)
EXTENDS Integers, Sequences, FiniteSets, TLC

VARIABLES
    alive,            \* the debugger process has not panicked
    binary,           \* ProgramContext.binary : Option<LoadedBinary>
    running_program,  \* ProgramContext.running_program : Option<RunningProgram>
    breakpoints,      \* ProgramContext.breakpoints : Vec<Breakpoint>
    child,            \* the traced child running_program.pid names: memory, rip
    next_pid,         \* the pid the next fork() returns
    output,           \* what the last command returned to the REPL
    stdin_line,       \* the line the last command read from stdin, if any
    st_pc, st_run, st_log, st_tmp,            \* SpecSteps
    dw_pc, dw_units, dw_result, dw_line,      \* SpecDwarf
    tr_pc, tr_va, tr_map, tr_real, tr_back,   \* SpecAddr
    wk_pc, wk_unit, wk_left, wk_pos, wk_depth, wk_stack, wk_result   \* SpecWalk

vars == <<alive, binary, running_program, breakpoints, child, next_pid, output, stdin_line,
          st_pc, st_run, st_log, st_tmp,
          dw_pc, dw_units, dw_result, dw_line, tr_pc, tr_va, tr_map, tr_real, tr_back,
          wk_pc, wk_unit, wk_left, wk_pos, wk_depth, wk_stack, wk_result>>

sessionVars == <<alive, binary, running_program, breakpoints, child, next_pid, output,
                 stdin_line>>
stepVars == <<st_pc, st_run, st_log, st_tmp>>
dwarfVars == <<dw_pc, dw_units, dw_result, dw_line>>
addrVars == <<tr_pc, tr_va, tr_map, tr_real, tr_back>>
walkVars == <<wk_pc, wk_unit, wk_left, wk_pos, wk_depth, wk_stack, wk_result>>

(***************************************************************************)
(* Bounds of the model.                                                    *)
(***************************************************************************)
AddrBits == 6          \* width of an Address in the model
MaxBreakpoints == 2    \* length of the breakpoint list
MaxRuns == 2           \* children forked in one session
MaxRows == 2           \* line rows per sequence (SpecDwarf)
MaxDwAddr == 3         \* largest row address (SpecDwarf)
MaxDies == 4           \* DIEs per unit (SpecWalk)
MaxLaterDies == 2      \* DIEs per unit after the first (SpecWalk)
MaxUnits == 2          \* units walked (SpecWalk)

(***************************************************************************)
(* Option<T>, u64 arithmetic, words.                                       *)
(***************************************************************************)
None == [some |-> FALSE]
Some(v) == [some |-> TRUE, val |-> v]

\* no handler is at work (SpecSteps)
NoTmp == [pid |-> 0]

\* no unit is walked, no variable looked up yet (SpecWalk)
NoUnit == [parent |-> <<>>, die |-> <<>>]
NoResult == [kind |-> "none", msg |-> ""]

\* no address looked up yet (SpecDwarf)
NoLookup == [bp |-> None, address |-> 0, line |-> None]

AddrMod == 2 ^ AddrBits
Addresses == 0 .. (AddrMod - 1)
AddU(a, b) == (a + b) % AddrMod
SubU(a, b) == (a + AddrMod - (b % AddrMod)) % AddrMod

TRAP_INSTRUCTION == 204
WordBytes == 8
Signals == {"SIGUSR1", "SIGTRAP"}

EmptyMap == [x \in {} |-> 0]

RECURSIVE SumSeq(_)
SumSeq(s) == IF s = <<>> THEN 0 ELSE Head(s) + SumSeq(Tail(s))

(***************************************************************************)
(* The file system the debugger runs in: working directory /s, sources     *)
(* /s/f and /s/g, /s/l a symbolic link to /s/f, binaries /s/a and /s/b,    *)
(* /s/t a file that is not an ELF.                                         *)
(***************************************************************************)
Cwd == <<"s">>
Files == {<<"s", "f">>, <<"s", "g">>, <<"s", "a">>, <<"s", "b">>, <<"s", "t">>}
Symlinks == {<<"s", "l">>}
LinkTarget(p) == <<"s", "f">>
ElfFiles == {<<"s", "a">>, <<"s", "b">>}

\* PathBuf::from of a string: its components, and whether it is absolute
PathComponents(chars) == SelectSeq(chars, LAMBDA c : c # "/")
IsAbsolute(chars) == chars # <<>> /\ Head(chars) = "/"

RECURSIVE Normalize(_, _)
Normalize(comps, acc) ==
    IF comps = <<>> THEN acc
    ELSE LET c == Head(comps) IN
         IF c = "." THEN Normalize(Tail(comps), acc)
         ELSE IF c = ".."
              THEN Normalize(Tail(comps),
                             IF acc = <<>> THEN acc ELSE SubSeq(acc, 1, Len(acc) - 1))
              ELSE Normalize(Tail(comps), Append(acc, c))

\* Path::canonicalize: absolute, "." and ".." and links resolved; Err when
\* the path names no file
canonicalize(comps, absolute) ==
    LET full == IF absolute THEN comps ELSE Cwd \o comps
        norm == Normalize(full, <<>>)
        real == IF norm \in Symlinks THEN LinkTarget(norm) ELSE norm
    IN  IF comps # <<>> /\ real \in Files THEN Some(real) ELSE None

(***************************************************************************)
(* DWARF line programs.  A unit is [stmt_list, files, sequences]:          *)
(* stmt_list says whether the unit DIE has DW_AT_stmt_list, files is the   *)
(* file table of the line-program header ([dir, name] entries, index from  *)
(* 1), sequences are the row sequences in file order.  A row is            *)
(* [address, file_index, line, end_sequence]; line 0 is "no line".         *)
(***************************************************************************)
Row(a, f, l) == [address |-> a, file_index |-> f, line |-> l, end_sequence |-> FALSE]
EndRow(a) == [address |-> a, file_index |-> 1, line |-> 0, end_sequence |-> TRUE]

Breakpoint(file, line_number) == [file |-> file, line_number |-> line_number]

\* extract_path: the header's file entry, directory joined with the name,
\* canonicalized; None when the index names no entry or the path no file
extract_path(files, file_index) ==
    IF file_index \notin DOMAIN files THEN None
    ELSE canonicalize(Append(files[file_index].dir, files[file_index].name), TRUE)

\* gimli's LineSequence.start: the address of the sequence's first row that
\* is not end_sequence, 0 when it has none
SequenceStart(rows) ==
    LET real == SelectSeq(rows, LAMBDA r : ~r.end_sequence)
    IN  IF real = <<>> THEN 0 ELSE real[1].address

\* gimli's IncompleteLineProgram::sequences: the sequences, stably sorted by
\* their start address
RECURSIVE InsertSorted(_, _)
InsertSorted(sorted, rows) ==
    IF sorted = <<>> THEN <<rows>>
    ELSE IF SequenceStart(sorted[Len(sorted)]) <= SequenceStart(rows)
         THEN Append(sorted, rows)
         ELSE Append(InsertSorted(SubSeq(sorted, 1, Len(sorted) - 1), rows),
                     sorted[Len(sorted)])

RECURSIVE SortSequences(_, _)
SortSequences(seqs, acc) ==
    IF seqs = <<>> THEN acc
    ELSE SortSequences(Tail(seqs), InsertSorted(acc, Head(seqs)))

sequences(unit) == SortSequences(unit.sequences, <<>>)

\* process_sequence: the sequence's own map, first address for each line
RECURSIVE process_rows(_, _, _)
process_rows(files, rows, bps) ==
    IF rows = <<>> THEN bps
    ELSE LET row == Head(rows)
             path == extract_path(files, row.file_index)
             bp == Breakpoint(path.val, row.line)
         IN  IF row.end_sequence \/ ~path.some \/ row.line = 0
             THEN process_rows(files, Tail(rows), bps)
             ELSE IF bp \in DOMAIN bps
                  THEN process_rows(files, Tail(rows), bps)
                  ELSE process_rows(files, Tail(rows),
                           [k \in DOMAIN bps \cup {bp} |->
                               IF k = bp THEN row.address ELSE bps[k]])

process_sequence(files, rows) == process_rows(files, rows, EmptyMap)

\* HashMap::extend: every pair of `more` is inserted, replacing the value of
\* a key already there
HashMapExtend(map, more) ==
    [k \in DOMAIN map \cup DOMAIN more |-> IF k \in DOMAIN more THEN more[k] ELSE map[k]]

RECURSIVE extend_sequences(_, _, _)
extend_sequences(files, seqs, bps) ==
    IF seqs = <<>> THEN bps
    ELSE extend_sequences(files, Tail(seqs),
                          HashMapExtend(bps, process_sequence(files, Head(seqs))))

\* DwarfInfo::get_breakpoints_from_dwarf: units in order, a unit without
\* DW_AT_stmt_list skipped, every sequence's map extended into the result
RECURSIVE breakpoints_from_units(_, _)
breakpoints_from_units(units, bps) ==
    IF units = <<>> THEN bps
    ELSE LET unit == Head(units) IN
         IF ~unit.stmt_list
         THEN breakpoints_from_units(Tail(units), bps)
         ELSE breakpoints_from_units(Tail(units),
                  extend_sequences(unit.files, sequences(unit), bps))

get_breakpoints_from_dwarf(units) == breakpoints_from_units(units, EmptyMap)

\* mutant of line_in_rows: the last row of the sequence at the address
line_in_rows_last_match(files, rows, address) ==
    LET hits == SelectSeq(rows, LAMBDA r :
                    /\ ~r.end_sequence
                    /\ extract_path(files, r.file_index).some
                    /\ r.line # 0
                    /\ r.address = address)
        row == hits[Len(hits)]
    IN  IF hits = <<>> THEN None
        ELSE Some([path |-> extract_path(files, row.file_index).val,
                   line_number |-> row.line])

\* DwarfInfo::get_line_from_address: the first row, in the same traversal,
\* whose address is the one asked for; None when there is none
RECURSIVE line_in_rows(_, _, _)
line_in_rows(files, rows, address) ==
    IF rows = <<>> THEN None
    ELSE LET row == Head(rows)
             path == extract_path(files, row.file_index)
         IN  IF ~row.end_sequence /\ path.some /\ row.line # 0 /\ row.address = address
             THEN Some([path |-> path.val, line_number |-> row.line])
             ELSE line_in_rows(files, Tail(rows), address)

RECURSIVE line_in_sequences(_, _, _)
line_in_sequences(files, seqs, address) ==
    IF seqs = <<>> THEN None
    ELSE LET found == line_in_rows(files, Head(seqs), address) IN
         IF found.some THEN found ELSE line_in_sequences(files, Tail(seqs), address)

RECURSIVE get_line_from_address(_, _)
get_line_from_address(units, address) ==
    IF units = <<>> THEN None
    ELSE LET unit == Head(units)
             found == IF unit.stmt_list
                      THEN line_in_sequences(unit.files, sequences(unit), address)
                      ELSE None
         IN  IF found.some THEN found ELSE get_line_from_address(Tail(units), address)

(***************************************************************************)
(* The two binaries of the model.  Both hold the same code: instructions   *)
(* of the lengths InstrLen, the last one a jump back to the entry or the   *)
(* exit, followed by data.  The executable segment has p_vaddr = p_offset  *)
(* = Segment.vaddr.  Their line programs differ.                           *)
(***************************************************************************)
InstrLen == <<1, 1, 3, 4, 1>>
Segment == [vaddr |-> 8, offset |-> 8]
Maps == {[begin |-> 16, offset |-> Segment.offset], [begin |-> 32, offset |-> Segment.offset]}

TextLen == SumSeq(InstrLen)
ImageLen == TextLen + WordBytes - 1
InstrOffset(i) == SumSeq(SubSeq(InstrLen, 1, i - 1))
InstrStarts == {InstrOffset(i) : i \in 1 .. Len(InstrLen)}
LastInstr == InstrOffset(Len(InstrLen))
LenAt == [off \in InstrStarts |-> InstrLen[CHOOSE i \in 1 .. Len(InstrLen) : InstrOffset(i) = off]]
ImageByte(off) == off + 1
Va(off) == Segment.vaddr + off

SourceFiles == <<[dir |-> <<"s">>, name |-> "f"], [dir |-> <<"s">>, name |-> "g"]>>

DwarfA ==
    << [stmt_list |-> TRUE, files |-> SourceFiles,
        sequences |-> << << Row(Va(0), 1, 1), Row(Va(1), 1, 2), Row(Va(2), 1, 2),
                            Row(Va(5), 1, 0), Row(Va(9), 1, 3), EndRow(Va(10)) >> >>] >>

DwarfB ==
    << [stmt_list |-> TRUE, files |-> SourceFiles,
        sequences |-> << << Row(Va(2), 1, 0), Row(Va(5), 1, 1), EndRow(Va(10)) >> >>] >>

DwarfOf(path) == IF path = <<"s", "a">> THEN DwarfA ELSE DwarfB

(***************************************************************************)
(* ptrace on the child's memory, a function from the mapped addresses to   *)
(* bytes.                                                                  *)
(***************************************************************************)
InitialMemory(map) ==
    [a \in map.begin .. (map.begin + ImageLen - 1) |-> ImageByte(a - map.begin)]

\* a word access succeeds when all its bytes are mapped
WordMapped(mem, addr) == \A k \in 0 .. (WordBytes - 1) : AddU(addr, k) \in DOMAIN mem

ptrace_read(mem, addr) == [k \in 1 .. WordBytes |-> mem[AddU(addr, k - 1)]]

ptrace_write(mem, addr, word) ==
    [a \in DOMAIN mem |-> IF SubU(a, addr) < WordBytes THEN word[SubU(a, addr) + 1] ELSE mem[a]]

\* mutant of add_trap_instruction: the low byte is left as it was
add_trap_instruction_keeps_byte(word) == word

\* (word & (!0xFF)) | TRAP_INSTRUCTION
add_trap_instruction(word) == [word EXCEPT ![1] = TRAP_INSTRUCTION]

\* mutant of real_address: the map's file offset is not subtracted
real_address_without_offset(virtual_address, proc_map) ==
    AddU(virtual_address, proc_map.begin)

\* virtual_address + proc_map.address_range.begin - proc_map.offset
real_address(virtual_address, proc_map) ==
    SubU(AddU(virtual_address, proc_map.begin), proc_map.offset)

\* mutant of setup_breakpoint: the pair is keyed by the file-relative address
setup_breakpoint_keyed_by_va(mem, virtual_address, proc_map) ==
    LET addr == real_address(virtual_address, proc_map)
        original_word == ptrace_read(mem, addr)
    IN  [mem |-> ptrace_write(mem, addr, add_trap_instruction(original_word)),
         pair |-> <<virtual_address, original_word>>]

\* setup_breakpoint: the memory after the trap is written, and the pair
\* (real address, original word) it returns
setup_breakpoint(mem, virtual_address, proc_map) ==
    LET addr == real_address(virtual_address, proc_map)
        original_word == ptrace_read(mem, addr)
    IN  [mem |-> ptrace_write(mem, addr, add_trap_instruction(original_word)),
         pair |-> <<addr, original_word>>]

\* the iterator of run_program: one setup_breakpoint for each breakpoint of
\* the list, in order; ok is FALSE where the code panics (a breakpoint that
\* is no key of possible_breakpoints, a word that cannot be read)
RECURSIVE setup_all(_, _, _, _, _)
setup_all(bps, possible, mem, proc_map, pairs) ==
    IF bps = <<>> THEN [ok |-> TRUE, mem |-> mem, pairs |-> pairs]
    ELSE IF Head(bps) \notin DOMAIN possible
         THEN [ok |-> FALSE, mem |-> mem, pairs |-> pairs]
         ELSE IF ~WordMapped(mem, real_address(possible[Head(bps)], proc_map))
              THEN [ok |-> FALSE, mem |-> mem, pairs |-> pairs]
              ELSE LET done == setup_breakpoint(mem, possible[Head(bps)], proc_map)
                   IN  setup_all(Tail(bps), possible, done.mem, proc_map,
                                 Append(pairs, done.pair))

\* mutant of collect: the pairs are dropped
collect_dropping_pairs(pairs, map) == map

\* Iterator::collect into a HashMap: a later pair replaces an earlier one
\* with the same key
RECURSIVE collect(_, _)
collect(pairs, map) ==
    IF pairs = <<>> THEN map
    ELSE collect(Tail(pairs),
                 [k \in DOMAIN map \cup {Head(pairs)[1]} |->
                     IF k = Head(pairs)[1] THEN Head(pairs)[2] ELSE map[k]])

(***************************************************************************)
(* The child's execution between a resume and the next wait.  A stop is    *)
(* [kind, signal, rip, reason]: reason "int3" when the child executed a    *)
(* 0xCC byte, "step" after a single step, "signal" for a signal sent to    *)
(* it.  Executing at an address that starts no instruction either raises   *)
(* SIGILL or falls through to the next instruction.  The operators give    *)
(* the set of stops the wait can report.                                   *)
(***************************************************************************)
Stopped(sig, rip, reason) == [kind |-> "Stopped", signal |-> sig, rip |-> rip, reason |-> reason]
Exited == [kind |-> "Exited", signal |-> "none", rip |-> 0, reason |-> "exit"]

NextStart(off) ==
    IF \E o \in InstrStarts : o > off
    THEN Some(CHOOSE o \in InstrStarts : o > off /\ \A o2 \in InstrStarts : o2 > off => o <= o2)
    ELSE None

\* the stops the child can reach when resumed at rip; `wrapped` once its
\* final jump has gone back to the entry (a second pass meets no other stop
\* than the first)
RECURSIVE Execute(_, _, _, _)
Execute(mem, base, rip, wrapped) ==
    LET off == SubU(rip, base) IN
    IF off \notin InstrStarts
    THEN {Stopped("SIGILL", rip, "fault")}
         \cup (IF NextStart(off).some
               THEN Execute(mem, base, AddU(base, NextStart(off).val), wrapped)
               ELSE {})
    ELSE IF mem[rip] = TRAP_INSTRUCTION
         THEN {Stopped("SIGTRAP", AddU(rip, 1), "int3")}
         ELSE IF off = LastInstr
              THEN {Exited} \cup (IF wrapped THEN {} ELSE Execute(mem, base, base, TRUE))
              ELSE Execute(mem, base, AddU(rip, LenAt[off]), wrapped)

\* ptrace::cont followed by wait: a signal sent to the child stops it where
\* it is, otherwise it runs to its next stop or exits
ContAndWait(mem, base, rip) ==
    {Stopped(sig, rip, "signal") : sig \in Signals} \cup Execute(mem, base, rip, FALSE)

\* ptrace::step followed by wait: one instruction
StepAndWait(mem, base, rip) ==
    LET off == SubU(rip, base) IN
    IF off \notin InstrStarts
    THEN {Stopped("SIGILL", rip, "fault")}
         \cup (IF NextStart(off).some
               THEN {Stopped("SIGTRAP", AddU(base, NextStart(off).val), "step")}
               ELSE {})
    ELSE IF mem[rip] = TRAP_INSTRUCTION
         THEN {Stopped("SIGTRAP", AddU(rip, 1), "int3")}
         ELSE IF off = LastInstr
              THEN {Exited, Stopped("SIGTRAP", base, "step")}
              ELSE {Stopped("SIGTRAP", AddU(rip, LenAt[off]), "step")}

(***************************************************************************)
(* Command arguments and confirmation answers the user may type.           *)
(***************************************************************************)
LoadArgs == {<<"a">>, <<"b">>, <<".", "/", "a">>, <<"n">>, <<"t">>}
WhereArgs == {<<"f", ":", "1">>, <<"f", ":", "2">>, <<"f", ":", "3">>, <<"g", ":", "1">>,
              <<"l", ":", "1">>, <<".", "/", "f", ":", "2">>, <<"f", ":", "9">>,
              <<"f", "1">>, <<"f", ":", "x">>, <<"f", ":">>, <<"z", ":", "1">>}
Answers == {"y", "n", "Y"}

\* no line was read from stdin
NoLine == "none"

\* mutant of ask_for_confirmation: the case of the answer is ignored
ask_for_confirmation_ignoring_case(answer) == answer \in {"y", "Y"}

\* ask_for_confirmation: the line read is exactly "y"
ask_for_confirmation(answer) == answer = "y"

Digits == <<"0", "1", "2", "3", "4", "5", "6", "7", "8", "9">>
IsDigit(c) == \E i \in DOMAIN Digits : Digits[i] = c
DigitValue(c) == (CHOOSE i \in DOMAIN Digits : Digits[i] = c) - 1

RECURSIVE DecimalValue(_, _)
DecimalValue(chars, acc) ==
    IF chars = <<>> THEN acc
    ELSE DecimalValue(Tail(chars), 10 * acc + DigitValue(Head(chars)))

\* str::parse::<u64>: an optional '+', then one or more digits
parse_u64(chars) ==
    LET digits == IF chars # <<>> /\ Head(chars) = "+" THEN Tail(chars) ELSE chars
    IN  IF digits # <<>> /\ \A i \in DOMAIN digits : IsDigit(digits[i])
        THEN Some(DecimalValue(digits, 0))
        ELSE None

\* Breakpoint::from_str: split at the first ':', the rest parsed as the line
from_str(s) ==
    IF \A i \in DOMAIN s : s[i] # ":"
    THEN [ok |-> FALSE, msg |-> "Missing :", file |-> <<>>, line_number |-> 0]
    ELSE LET colon == CHOOSE i \in DOMAIN s : s[i] = ":" /\ \A j \in 1 .. (i - 1) : s[j] # ":"
             number == parse_u64(SubSeq(s, colon + 1, Len(s)))
         IN  IF ~number.some
             THEN [ok |-> FALSE, msg |-> "Couldn't parse line number",
                   file |-> <<>>, line_number |-> 0]
             ELSE [ok |-> TRUE, msg |-> "", file |-> SubSeq(s, 1, colon - 1),
                   line_number |-> number.val]

(***************************************************************************)
(* The session.                                                            *)
(***************************************************************************)
\* the LoadedBinary load_program builds from each ELF file
LoadedBinaries ==
    [path \in ElfFiles |->
        [binary_path |-> path,
         possible_breakpoints |-> get_breakpoints_from_dwarf(DwarfOf(path))]]

LoadedBinary(path) == LoadedBinaries[path]

WaitStatus(pid, stop) == [kind |-> stop.kind, pid |-> pid, signal |-> stop.signal]

NoChild == [pid |-> 0, mem |-> EmptyMap, rip |-> 0, reason |-> "none"]

\* get_variable_info is not at work
WalkIdle ==
    /\ wk_pc = "off" /\ wk_unit = NoUnit /\ wk_left = 0 /\ wk_pos = 0 /\ wk_depth = 0
    /\ wk_stack = <<>> /\ wk_result = NoResult

Init ==
    /\ alive = TRUE
    /\ binary = None
    /\ running_program = None
    /\ breakpoints = <<>>
    /\ child = NoChild
    /\ next_pid = 1
    /\ output = [cmd |-> "none", kind |-> "Ok", msg |-> ""]
    /\ stdin_line = NoLine
    /\ st_pc = "prompt" /\ st_run = EmptyMap /\ st_log = <<>> /\ st_tmp = NoTmp
    /\ dw_pc = "off" /\ dw_units = <<>> /\ dw_result = EmptyMap /\ dw_line = NoLookup
    /\ tr_pc = "off" /\ tr_va = 0 /\ tr_map = [begin |-> 0, offset |-> 0]
    /\ tr_real = 0 /\ tr_back = 0
    /\ WalkIdle

\* mutant of Return: the handler clears the breakpoint list on its way out
Return_clearing_breakpoints(cmd, kind, msg) ==
    /\ output' = [cmd |-> cmd, kind |-> kind, msg |-> msg]
    /\ breakpoints' = <<>>
    /\ UNCHANGED <<alive, binary, running_program, child, next_pid>>

\* mutant of Return: the handler drops the running program on its way out
Return_dropping_running_program(cmd, kind, msg) ==
    /\ output' = [cmd |-> cmd, kind |-> kind, msg |-> msg]
    /\ running_program' = None
    /\ UNCHANGED <<alive, binary, breakpoints, child, next_pid>>

\* the handler returns Ok(msg) or Err(msg) and leaves the context as it was
Return(cmd, kind, msg) ==
    /\ output' = [cmd |-> cmd, kind |-> kind, msg |-> msg]
    /\ UNCHANGED <<alive, binary, running_program, breakpoints, child, next_pid>>

\* the handler panics (unwrap, expect, panic!, indexing): the debugger dies
Panic(cmd, msg) ==
    /\ alive' = FALSE
    /\ output' = [cmd |-> cmd, kind |-> "Panic", msg |-> msg]
    /\ UNCHANGED <<binary, running_program, breakpoints, child>>

\* mutant of is_empty: the list is never taken to be empty
is_empty_never(vec) == FALSE

\* Vec::is_empty
is_empty(vec) == vec = <<>>

\* mutant of load_binary: the old binary is dropped before the path is read
load_binary_dropping_old(old, path) ==
    IF path.some THEN Some(LoadedBinary(path.val)) ELSE None

\* the binary of the context after load_program got past the confirmation:
\* canonicalize()? returns before context.binary is assigned
load_binary(old, path) ==
    IF path.some THEN Some(LoadedBinary(path.val)) ELSE old

\* PathBuf::from(args[0]).canonicalize() for each argument of the load command
load_paths == [arg \in LoadArgs |-> canonicalize(PathComponents(arg), IsAbsolute(arg))]

load_program ==
    /\ alive
    /\ \E answer \in (IF binary.some THEN Answers ELSE {"y"}) :
         /\ stdin_line' = IF binary.some THEN answer ELSE NoLine
         /\ IF binary.some /\ ~ask_for_confirmation(answer)
            THEN Return("load", "Ok", "Kept original binary")
            ELSE \E arg \in LoadArgs :
                LET path == load_paths[arg] IN
                IF path.some /\ path.val \notin ElfFiles
                THEN Panic("load", "Failed to parse ELF file") /\ UNCHANGED next_pid
                ELSE /\ binary' = load_binary(binary, path)
                     /\ output' = IF path.some
                                  THEN [cmd |-> "load", kind |-> "Ok", msg |-> "Binary loaded"]
                                  ELSE [cmd |-> "load", kind |-> "Err", msg |-> "No such file"]
                     /\ UNCHANGED <<alive, running_program, breakpoints, child, next_pid>>
    /\ UNCHANGED <<stepVars, dwarfVars, addrVars, walkVars>>

\* args[0].parse::<Breakpoint>() and breakpoint.file.canonicalize() for each
\* argument of the breakpoint command
parsed_breakpoints ==
    [where \in WhereArgs |->
        LET parsed == from_str(where)
        IN  [parsed |-> parsed,
             file |-> canonicalize(PathComponents(parsed.file), IsAbsolute(parsed.file))]]

\* mutant of push: the element is put at the front of the list
push_front(vec, value) == <<value>> \o vec

\* Vec::push
push(vec, value) == Append(vec, value)

add_breakpoint ==
    /\ alive
    /\ stdin_line' = NoLine
    /\ \E where \in WhereArgs :
         LET parsed == parsed_breakpoints[where].parsed
             file == parsed_breakpoints[where].file
             breakpoint == Breakpoint(file.val, parsed.line_number)
         IN  IF ~binary.some THEN Return("breakpoint", "Err", "Please load a binary first")
             ELSE IF ~parsed.ok THEN Return("breakpoint", "Err", parsed.msg)
             ELSE IF ~file.some THEN Return("breakpoint", "Err", "No such file")
             ELSE IF breakpoint \notin DOMAIN binary.val.possible_breakpoints
                  THEN Return("breakpoint", "Ok", "Not a valid breakpoint position")
                  ELSE /\ Len(breakpoints) < MaxBreakpoints
                       /\ breakpoints' = push(breakpoints, breakpoint)
                       /\ output' = [cmd |-> "breakpoint", kind |-> "Ok",
                                     msg |-> "Breakpoint added"]
                       /\ UNCHANGED <<alive, binary, running_program, child, next_pid>>
    /\ UNCHANGED <<stepVars, dwarfVars, addrVars, walkVars>>

\* how a handler ends once the child is involved
Panicked(msg) == [kind |-> "Panic", msg |-> msg, rp |-> running_program, child |-> child]

\* the wait reported Exited for the child `pid`: panic!("Child exited")
ExitedChild(pid) == [pid |-> pid, mem |-> EmptyMap, rip |-> 0, reason |-> "exit"]
ChildExited(pid) ==
    [kind |-> "Panic", msg |-> "Child exited", rp |-> running_program,
     child |-> ExitedChild(pid)]
Failed(msg, rp, c) == [kind |-> "Err", msg |-> msg, rp |-> rp, child |-> c]
Reached(rp, c) == [kind |-> "Ok", msg |-> "Reached breakpoint", rp |-> rp, child |-> c]

\* get_line_from_pid(pid, proc_map)?: Ok(line), or the Err of a lookup that
\* finds no row for the address
LineLookups == {"Ok", "Err"}

\* mutant of launched: the pairs are collected into the previous record's map
launched_keeping_old_traps(proc_map, set, status) ==
    IF status.kind = "Exited" THEN {ChildExited(next_pid)}
    ELSE {Reached(Some([proc_map |-> proc_map,
                        set_breakpoints |->
                            collect(set.pairs,
                                    IF running_program.some
                                    THEN running_program.val.set_breakpoints
                                    ELSE EmptyMap),
                        pid |-> next_pid,
                        last_status |-> WaitStatus(next_pid, status)]),
                  [pid |-> next_pid, mem |-> set.mem, rip |-> status.rip,
                   reason |-> status.reason])}

\* run_program from the cont on, for one stop the wait reports
launched(proc_map, set, status) ==
    IF status.kind = "Exited" THEN {ChildExited(next_pid)}
    ELSE {IF line = "Err"
          THEN Failed("Couldn't find the source code for the address",
                      running_program, child)
          ELSE Reached(Some([proc_map |-> proc_map,
                             set_breakpoints |-> collect(set.pairs, EmptyMap),
                             pid |-> next_pid,
                             last_status |-> WaitStatus(next_pid, status)]),
                       [pid |-> next_pid, mem |-> set.mem, rip |-> status.rip,
                        reason |-> status.reason]) :
          line \in LineLookups}

\* run_program from the fork on: the ways it can end
launch(proc_map) ==
    LET entry == real_address(Segment.vaddr, proc_map)
        set == setup_all(breakpoints, binary.val.possible_breakpoints,
                         InitialMemory(proc_map), proc_map, <<>>)
    IN  {ChildExited(next_pid)}
        \cup (IF ~set.ok THEN {Panicked("setup_breakpoint")}
              ELSE UNION {launched(proc_map, set, status) :
                            status \in ContAndWait(set.mem, proc_map.begin, entry)})

run_program ==
    /\ alive
    /\ IF ~binary.some
       THEN Return("run", "Err", "You need to load a binary first") /\ stdin_line' = NoLine
       ELSE \E answer \in (IF running_program.some THEN Answers ELSE {"y"}) :
         /\ stdin_line' = IF running_program.some THEN answer ELSE NoLine
         /\ IF running_program.some /\ ~ask_for_confirmation(answer)
            THEN Return("run", "Ok", "The original program is still running")
            ELSE IF is_empty(breakpoints)
            THEN Return("run", "Err", "Please set at least one breakpoint first")
            ELSE
              /\ next_pid <= MaxRuns
              /\ \E proc_map \in Maps :
                   \E r \in launch(proc_map) :
                      /\ next_pid' = next_pid + 1
                      /\ alive' = (r.kind # "Panic")
                      /\ running_program' = r.rp
                      /\ child' = r.child
                      /\ output' = [cmd |-> "run", kind |-> r.kind, msg |-> r.msg]
                      /\ UNCHANGED <<binary, breakpoints>>
    /\ UNCHANGED <<stepVars, dwarfVars, addrVars, walkVars>>

\* mutant of rearm: a trap is also written at the instruction stepped to
rearm_arming_next_instruction(restored, rip, original_word, stepped) ==
    IF stepped.kind = "Exited"
    THEN [ok |-> FALSE, exited |-> TRUE, mem |-> restored, rip |-> rip]
    ELSE LET armed == ptrace_write(restored, rip, add_trap_instruction(original_word))
         IN  [ok |-> TRUE, exited |-> FALSE,
              mem |-> IF WordMapped(armed, stepped.rip)
                      THEN ptrace_write(armed, stepped.rip,
                                        add_trap_instruction(ptrace_read(armed, stepped.rip)))
                      ELSE armed,
              rip |-> stepped.rip]

\* run_original_breakpoint_instruction after the step's wait reported
\* `stepped`: [ok, mem, rip]; ok is FALSE where do_step panics
rearm(restored, rip, original_word, stepped) ==
    IF stepped.kind = "Exited"
    THEN [ok |-> FALSE, exited |-> TRUE, mem |-> restored, rip |-> rip]
    ELSE [ok |-> TRUE, exited |-> FALSE,
          mem |-> ptrace_write(restored, rip, add_trap_instruction(original_word)),
          rip |-> stepped.rip]

\* run_original_breakpoint_instruction: the ways it can end
run_original_breakpoint_instruction(c, set_breakpoints, base) ==
    LET rip == SubU(c.rip, 1)
        original_word == set_breakpoints[rip]
        restored == ptrace_write(c.mem, rip, original_word)
    IN  IF rip \notin DOMAIN set_breakpoints \/ ~WordMapped(c.mem, rip)
        THEN {[ok |-> FALSE, exited |-> FALSE, mem |-> c.mem, rip |-> rip]}
        ELSE {rearm(restored, rip, original_word, stepped) :
                stepped \in StepAndWait(restored, base, rip)}

\* mutant of resumed: an Exited status is taken for a stop
resumed_ignoring_exit(rp, before, status) ==
    {Reached(Some([rp EXCEPT !.last_status = WaitStatus(rp.pid, status)]),
             IF status.kind = "Exited" THEN ExitedChild(rp.pid)
             ELSE [pid |-> rp.pid, mem |-> before.mem, rip |-> status.rip,
                   reason |-> status.reason])}

\* continue_program from the cont on, for one stop the wait reports
resumed(rp, before, status) ==
    LET new_rp == Some([rp EXCEPT !.last_status = WaitStatus(rp.pid, status)])
        new_child == [pid |-> rp.pid, mem |-> before.mem, rip |-> status.rip,
                      reason |-> status.reason]
    IN  IF status.kind = "Exited" THEN {ChildExited(rp.pid)}
        ELSE {IF line = "Err"
              THEN Failed("Couldn't find the source code for the address", new_rp, new_child)
              ELSE Reached(new_rp, new_child) :
              line \in LineLookups}

\* continue_program with a running program and a binary: the ways it can end
resume ==
    LET rp == running_program.val
        base == rp.proc_map.begin
        trapped == rp.last_status.kind = "Stopped" /\ rp.last_status.signal = "SIGTRAP"
        befores == IF trapped
                   THEN run_original_breakpoint_instruction(child, rp.set_breakpoints, base)
                   ELSE {[ok |-> TRUE, exited |-> FALSE, mem |-> child.mem, rip |-> child.rip]}
    IN  UNION {IF before.exited
               THEN {ChildExited(rp.pid)}
               ELSE IF ~before.ok
               THEN {Panicked("run_original_breakpoint_instruction")}
               ELSE UNION {resumed(rp, before, status) :
                             status \in ContAndWait(before.mem, base, before.rip)} :
               before \in befores}

continue_program ==
    /\ alive
    /\ stdin_line' = NoLine
    /\ IF ~running_program.some
       THEN Return("continue", "Err", "You need to run a program first")
       ELSE IF ~binary.some
       THEN Panic("continue", "unwrap on None") /\ UNCHANGED next_pid
       ELSE \E r \in resume :
              /\ alive' = (r.kind # "Panic")
              /\ running_program' = r.rp
              /\ child' = r.child
              /\ output' = [cmd |-> "continue", kind |-> r.kind, msg |-> r.msg]
              /\ UNCHANGED <<binary, breakpoints, next_pid>>
    /\ UNCHANGED <<stepVars, dwarfVars, addrVars, walkVars>>

\* how the turn of get_variable_info's loop for one entry ends
Continue == [kind |-> "Continue", msg |-> ""]
Found == [kind |-> "Ok", msg |-> ""]
WalkErr(msg) == [kind |-> "Err", msg |-> msg]
WalkPanic(msg) == [kind |-> "Panic", msg |-> msg]

\* get_address_of_variable(name, pid)?: the ways get_variable_info ends
VariableLookups ==
    {Found, WalkErr("Couldn't find the variable"),
     WalkErr("Only primitive types are supported"),
     WalkPanic("Support location lists for variables"),
     WalkPanic("Frame base not stored in a register"),
     WalkPanic("unwrap on None")}

\* print_var: the variable is resolved and one word read; the context is
\* only read
print_var ==
    /\ alive
    /\ stdin_line' = NoLine
    /\ IF ~running_program.some
       THEN Return("print", "Err", "You need to run a program first")
       ELSE IF ~binary.some
       THEN Panic("print", "unwrap on None") /\ UNCHANGED next_pid
       ELSE \E lookup \in VariableLookups :
              IF lookup.kind = "Ok" THEN Return("print", "Ok", "")
              ELSE IF lookup.kind = "Err" THEN Return("print", "Err", lookup.msg)
              ELSE Panic("print", lookup.msg) /\ UNCHANGED next_pid
    /\ UNCHANGED <<stepVars, dwarfVars, addrVars, walkVars>>

Next == load_program \/ add_breakpoint \/ run_program \/ continue_program \/ print_var

Spec == Init /\ [][Next]_vars

(***************************************************************************)
(* SpecDwarf: get_breakpoints_from_dwarf on bounded line programs.  The    *)
(* header's file table names /s/f, the link /s/l to it, and /s/z, which    *)
(* does not exist.  Rows of a sequence do not decrease in address.         *)
(***************************************************************************)
DwFiles == <<[dir |-> <<"s">>, name |-> "f"], [dir |-> <<"s">>, name |-> "l"],
             [dir |-> <<"s">>, name |-> "z"]>>

DwRows == {Row(a, 1, l) : a \in 1 .. MaxDwAddr, l \in {1, 2}}
          \cup {Row(1, 2, 1), Row(1, 3, 1), Row(1, 1, 0)}

RECURSIVE RowSeqs(_)
RowSeqs(n) ==
    IF n = 0 THEN {<<>>}
    ELSE RowSeqs(n - 1)
         \cup {Append(rows, r) : rows \in {x \in RowSeqs(n - 1) : Len(x) = n - 1}, r \in DwRows}

NonDecreasing(rows) == \A i \in 1 .. (Len(rows) - 1) : rows[i].address <= rows[i + 1].address

\* a sequence: its rows, then the end_sequence row
DwSequences ==
    {Append(rows, EndRow(rows[Len(rows)].address + 1)) :
        rows \in {x \in RowSeqs(MaxRows) : x # <<>> /\ NonDecreasing(x)}}

DwUnit(stmt_list, seqs) == [stmt_list |-> stmt_list, files |-> DwFiles, sequences |-> seqs]

\* two sequences in one unit, in two units, or the first in a unit that has
\* no DW_AT_stmt_list
DwShapes == {"one unit", "two units", "no stmt_list"}

DwProgram(shape, s1, s2) ==
    IF shape = "one unit" THEN <<DwUnit(TRUE, <<s1, s2>>)>>
    ELSE IF shape = "two units" THEN <<DwUnit(TRUE, <<s1>>), DwUnit(TRUE, <<s2>>)>>
    ELSE <<DwUnit(FALSE, <<s1>>), DwUnit(TRUE, <<s2>>)>>

SessionIdle ==
    /\ alive = TRUE
    /\ binary = None
    /\ running_program = None
    /\ breakpoints = <<>>
    /\ child = NoChild
    /\ next_pid = 1
    /\ output = [cmd |-> "none", kind |-> "Ok", msg |-> ""]
    /\ stdin_line = NoLine
    /\ st_pc = "prompt" /\ st_run = EmptyMap /\ st_log = <<>> /\ st_tmp = NoTmp

InitDwarf ==
    /\ SessionIdle
    /\ dw_pc = "input" /\ dw_result = EmptyMap /\ dw_line = NoLookup
    /\ \E shape \in DwShapes, s1 \in DwSequences, s2 \in DwSequences :
          dw_units = DwProgram(shape, s1, s2)
    /\ tr_pc = "off" /\ tr_va = 0 /\ tr_map = [begin |-> 0, offset |-> 0]
    /\ tr_real = 0 /\ tr_back = 0
    /\ WalkIdle

enumerate_breakpoints ==
    /\ dw_pc = "input"
    /\ dw_result' = get_breakpoints_from_dwarf(dw_units)
    /\ dw_pc' = "done"
    /\ UNCHANGED <<dw_units, dw_line, sessionVars, stepVars, addrVars, walkVars>>

\* get_line_from_address asked for the address stored for one breakpoint
lookup_line ==
    /\ dw_pc = "done"
    /\ \E bp \in DOMAIN dw_result :
          dw_line' = [bp |-> Some(bp), address |-> dw_result[bp],
                      line |-> get_line_from_address(dw_units, dw_result[bp])]
    /\ dw_pc' = "looked"
    /\ UNCHANGED <<dw_units, dw_result, sessionVars, stepVars, addrVars, walkVars>>

NextDwarf == enumerate_breakpoints \/ lookup_line

SpecDwarf == InitDwarf /\ [][NextDwarf]_vars

(***************************************************************************)
(* SpecAddr: the translation between file-relative and runtime addresses   *)
(* on every address and every page-aligned mapping of the model whose      *)
(* base lies above its file offset.                                        *)
(***************************************************************************)
\* the inverse translation: rip - base + off
file_relative(rip, proc_map) == AddU(SubU(rip, proc_map.begin), proc_map.offset)

PageAligned == {a \in Addresses : a % WordBytes = 0}

InitAddr ==
    /\ SessionIdle
    /\ dw_pc = "off" /\ dw_units = <<>> /\ dw_result = EmptyMap /\ dw_line = NoLookup
    /\ tr_pc = "input" /\ tr_va \in Addresses
    /\ tr_map \in {m \in [begin : PageAligned, offset : PageAligned] : m.begin > m.offset}
    /\ tr_real = 0 /\ tr_back = 0
    /\ WalkIdle

\* u64 `+` and `-`: a build with overflow checks panics where the exact
\* result leaves 0 .. 2^64 - 1, a build without them wraps
forward_overflows(virtual_address, proc_map) ==
    \/ virtual_address + proc_map.begin >= AddrMod
    \/ virtual_address + proc_map.begin < proc_map.offset

back_overflows(rip, proc_map) ==
    \/ rip < proc_map.begin
    \/ rip - proc_map.begin + proc_map.offset >= AddrMod

translate_forward ==
    /\ tr_pc = "input"
    /\ \/ tr_real' = real_address(tr_va, tr_map) /\ tr_pc' = "forward"
       \/ forward_overflows(tr_va, tr_map) /\ tr_pc' = "panic" /\ UNCHANGED tr_real
    /\ UNCHANGED <<tr_va, tr_map, tr_back, sessionVars, stepVars, dwarfVars, walkVars>>

translate_back ==
    /\ tr_pc = "forward"
    /\ \/ tr_back' = file_relative(tr_real, tr_map) /\ tr_pc' = "back"
       \/ back_overflows(tr_real, tr_map) /\ tr_pc' = "panic" /\ UNCHANGED tr_back
    /\ UNCHANGED <<tr_va, tr_map, tr_real, sessionVars, stepVars, dwarfVars, walkVars>>

NextAddr == translate_forward \/ translate_back

SpecAddr == InitAddr /\ [][NextAddr]_vars

(***************************************************************************)
(* SpecWalk: DwarfInfo::get_variable_info, one DIE per step, on bounded    *)
(* units.  A unit is the sequence of its DIEs in the order next_dfs        *)
(* returns them, with the index of each DIE's parent (0 for the unit's     *)
(* root).  A DIE carries its tag and the attributes the lookup reads: the  *)
(* name, what DW_AT_type refers to, the form of DW_AT_location and, for a  *)
(* subprogram, what DW_AT_frame_base evaluates to.                         *)
(***************************************************************************)
\* the `name` argument of get_variable_info
LookupName == "x"

Die(tag, name, type, location, frame_base) ==
    [tag |-> tag, name |-> name, type |-> type, location |-> location,
     frame_base |-> frame_base]

CompileUnit == Die("compile_unit", "", "none", "none", "none")
Subprogram(frame_base) == Die("subprogram", "", "none", "none", frame_base)
LexicalBlock == Die("lexical_block", "", "none", "none", "none")
Variable(name, type, location) == Die("variable", name, type, location, "none")

\* the DIEs below the root: subprograms whose frame base is a register or
\* something else; variables of a base type at an address off the frame
\* base, of a structure type, with a location list, with an expression that
\* yields a value and not an address, with no location, and of another name
DieKinds ==
    {Subprogram("register"), Subprogram("other"), LexicalBlock,
     Variable("x", "base", "fbreg"), Variable("x", "struct", "fbreg"),
     Variable("x", "base", "loclist"), Variable("x", "base", "value"),
     Variable("x", "base", "none"), Variable("y", "base", "fbreg")}

RECURSIVE AncestorsOrSelf(_, _)
AncestorsOrSelf(parent, i) ==
    IF i = 0 THEN {} ELSE {i} \cup AncestorsOrSelf(parent, parent[i])

Ancestors(parent, i) == AncestorsOrSelf(parent, parent[i])

\* the depth of DIE i in the tree, the root at 0
DieDepth(unit, i) == Cardinality(Ancestors(unit.parent, i))

\* the parent indices of the trees of at most MaxDies DIEs, numbered in
\* depth-first order: the parent of a DIE is the DIE before it or one of
\* that DIE's ancestors
PreOrders ==
    {p \in UNION {[1 .. n -> 0 .. (n - 1)] : n \in 1 .. MaxDies} :
        /\ p[1] = 0
        /\ \A i \in 2 .. Len(p) : p[i] \in 1 .. (i - 1)
        /\ \A i \in 2 .. Len(p) : p[i] \in AncestorsOrSelf(p, i - 1)}

\* the unit of parent indices p whose DIEs below the root are d
Unit(p, d) == [parent |-> p, die |-> <<CompileUnit>> \o d]

\* the trees of the units that may follow the first one
LaterPreOrders == {p \in PreOrders : Len(p) <= MaxLaterDies}

\* EntriesCursor::next_dfs after it returned DIE `pos` (0: nothing yet): the
\* next DIE and the change of depth towards it
next_dfs(unit, pos) ==
    IF pos = Len(unit.die) THEN None
    ELSE Some([depth_delta |-> IF pos = 0 THEN 0
                               ELSE DieDepth(unit, pos + 1) - DieDepth(unit, pos),
               entry |-> pos + 1])

\* mutant of keeps: an entry of the same depth stays on the stack
keeps_same_depth(d, depth) == d <= depth

\* the filter of parents_stack
keeps(d, depth) == d < depth

\* parents_stack after the filter
pruned(stack, depth) ==
    LET keep(e) == keeps(e.depth, depth) IN SelectSeq(stack, keep)

\* the frame base of the subprogram on top of the stack
frame_base_of(unit, stack) ==
    IF stack = <<>> THEN WalkPanic("unwrap on None")
    ELSE IF unit.die[stack[Len(stack)].die].frame_base = "register" THEN Found
    ELSE WalkPanic("Frame base not stored in a register")

\* the body of the loop for an entry that is no subprogram
resolve(unit, entry, stack) ==
    IF entry.tag # "variable" \/ entry.name # LookupName THEN Continue
    ELSE IF entry.type # "base" THEN WalkErr("Only primitive types are supported")
    ELSE IF entry.location = "none" THEN Continue
    ELSE IF entry.location = "loclist"
    THEN WalkPanic("Support location lists for variables")
    ELSE IF frame_base_of(unit, stack).kind = "Panic" THEN frame_base_of(unit, stack)
    ELSE IF entry.location = "fbreg" THEN Found
    ELSE Continue

InitWalk ==
    /\ SessionIdle
    /\ dw_pc = "off" /\ dw_units = <<>> /\ dw_result = EmptyMap /\ dw_line = NoLookup
    /\ tr_pc = "off" /\ tr_va = 0 /\ tr_map = [begin |-> 0, offset |-> 0]
    /\ tr_real = 0 /\ tr_back = 0
    /\ wk_pc = "walk" /\ wk_left \in 0 .. (MaxUnits - 1)
    /\ \E p \in PreOrders :
          \E d \in [1 .. (Len(p) - 1) -> DieKinds] : wk_unit = Unit(p, d)
    /\ wk_pos = 0 /\ wk_depth = 0 /\ wk_stack = <<>> /\ wk_result = NoResult

\* one turn of the loop over the entries of the unit
walk_entry ==
    /\ wk_pc = "walk"
    /\ next_dfs(wk_unit, wk_pos).some
    /\ LET next == next_dfs(wk_unit, wk_pos).val
           depth == wk_depth + next.depth_delta
           parents_stack == pruned(wk_stack, depth)
           entry == wk_unit.die[next.entry]
           outcome == resolve(wk_unit, entry, parents_stack)
       IN  /\ wk_pos' = next.entry
           /\ wk_depth' = depth
           /\ IF entry.tag = "subprogram"
              THEN /\ wk_stack' = Append(parents_stack, [depth |-> depth, die |-> next.entry])
                   /\ UNCHANGED <<wk_pc, wk_result>>
              ELSE /\ wk_stack' = parents_stack
                   /\ IF outcome.kind = "Continue"
                      THEN UNCHANGED <<wk_pc, wk_result>>
                      ELSE wk_pc' = "done" /\ wk_result' = outcome
    /\ UNCHANGED <<wk_unit, wk_left, sessionVars, stepVars, dwarfVars, addrVars>>

\* the entries of the unit are exhausted: the next unit, with a new depth
\* and a new stack
walk_next_unit ==
    /\ wk_pc = "walk"
    /\ ~next_dfs(wk_unit, wk_pos).some
    /\ wk_left > 0
    /\ \E p \in LaterPreOrders :
          \E d \in [1 .. (Len(p) - 1) -> DieKinds] : wk_unit' = Unit(p, d)
    /\ wk_left' = wk_left - 1
    /\ wk_pos' = 0 /\ wk_depth' = 0 /\ wk_stack' = <<>>
    /\ UNCHANGED <<wk_pc, wk_result, sessionVars, stepVars, dwarfVars, addrVars>>

\* the units are exhausted
walk_not_found ==
    /\ wk_pc = "walk"
    /\ ~next_dfs(wk_unit, wk_pos).some
    /\ wk_left = 0
    /\ wk_pc' = "done"
    /\ wk_result' = WalkErr("Couldn't find the variable")
    /\ UNCHANGED <<wk_unit, wk_left, wk_pos, wk_depth, wk_stack,
                   sessionVars, stepVars, dwarfVars, addrVars>>

NextWalk == walk_entry \/ walk_next_unit \/ walk_not_found

SpecWalk == InitWalk /\ [][NextWalk]_vars

(***************************************************************************)
(* SpecSteps: the handlers of run, continue and print taken one call on    *)
(* the child at a time.  st_run gives, for every child forked, whether it  *)
(* is running, stopped or has exited; st_log lists the calls the current   *)
(* handler has made on a child, each with the run state of the child when  *)
(* the call was made; st_tmp holds the handler's locals.  load, breakpoint *)
(* and the early returns of the other commands are the steps of Spec.      *)
(***************************************************************************)
Call(op, pid) == [op |-> op, pid |-> pid, run |-> st_run[pid]]

SetRun(pid, run) == [p \in DOMAIN st_run \cup {pid} |-> IF p = pid THEN run ELSE st_run[p]]

\* the handler panics
StepPanic(cmd, msg) ==
    /\ alive' = FALSE
    /\ output' = [cmd |-> cmd, kind |-> "Panic", msg |-> msg]
    /\ st_pc' = "dead"
    /\ UNCHANGED <<binary, running_program, breakpoints, child, next_pid, stdin_line, st_tmp>>

\* the handler returns to Repl::run_command
StepReturn(cmd, kind, msg) ==
    /\ output' = [cmd |-> cmd, kind |-> kind, msg |-> msg]
    /\ st_pc' = "returned"
    /\ st_tmp' = NoTmp

\* run_command prints the message and the REPL reads the next line
read_line ==
    /\ st_pc = "returned"
    /\ st_pc' = "prompt"
    /\ st_log' = <<>>
    /\ UNCHANGED <<sessionVars, st_run, st_tmp, dwarfVars, addrVars, walkVars>>

\* the handler of cmd has been called and has not returned
Pending(cmd) == [cmd |-> cmd, kind |-> "Pending", msg |-> ""]

\* mutants of after_fork_pc and after_cont_pc: the wait is skipped
after_fork_pc_skipping_wait == "run_setup"
after_cont_pc_skipping_wait == "continue_line"

\* where the handlers go after a call that leaves the child running
after_fork_pc == "run_wait_exec"
after_cont_pc == "continue_wait"
after_step_pc == "step_wait"

\* load, breakpoint, and the returns of run, continue and print that come
\* before any call on a child
prompt_command ==
    /\ st_pc = "prompt"
    /\ \/ load_program
       \/ add_breakpoint
       \/ run_program /\ next_pid' = next_pid
       \/ continue_program /\ (~running_program.some \/ ~binary.some)
       \/ print_var /\ (~running_program.some \/ ~binary.some)

\* run_program up to launch_fork
run_fork ==
    /\ st_pc = "prompt" /\ alive
    /\ binary.some /\ ~is_empty(breakpoints) /\ next_pid <= MaxRuns
    /\ \E answer \in Answers :
         /\ ask_for_confirmation(answer)
         /\ stdin_line' = IF running_program.some THEN answer ELSE NoLine
    /\ \E proc_map \in Maps :
         st_tmp' = [pid |-> next_pid, proc_map |-> proc_map,
                    mem |-> InitialMemory(proc_map),
                    rip |-> real_address(Segment.vaddr, proc_map),
                    reason |-> "exec", pairs |-> <<>>, status |-> Exited]
    /\ next_pid' = next_pid + 1
    /\ st_run' = SetRun(next_pid, "running")
    /\ st_log' = <<>>
    /\ st_pc' = after_fork_pc
    /\ output' = Pending("run")
    /\ UNCHANGED <<alive, binary, running_program, breakpoints, child>>
    /\ UNCHANGED <<dwarfVars, addrVars, walkVars>>

\* the wait after launch_fork: the exec stop, or the child exited
run_wait_exec ==
    /\ st_pc = "run_wait_exec"
    /\ st_log' = Append(st_log, Call("wait", st_tmp.pid))
    /\ \/ /\ st_run' = SetRun(st_tmp.pid, "stopped")
          /\ st_pc' = "run_setup"
          /\ UNCHANGED <<sessionVars, st_tmp>>
       \/ /\ st_run' = SetRun(st_tmp.pid, "exited")
          /\ StepPanic("run", "Child exited")
    /\ UNCHANGED <<dwarfVars, addrVars, walkVars>>

\* the iterator of run_program: a ptrace::read and a ptrace::write for
\* every breakpoint of the list
run_setup ==
    /\ st_pc = "run_setup"
    /\ LET set == setup_all(breakpoints, binary.val.possible_breakpoints,
                            st_tmp.mem, st_tmp.proc_map, <<>>)
       IN  IF ~set.ok
           THEN StepPanic("run", "setup_breakpoint") /\ UNCHANGED st_log
           ELSE /\ st_tmp' = [st_tmp EXCEPT !.mem = set.mem, !.pairs = set.pairs]
                /\ st_log' = st_log \o
                       [i \in 1 .. (2 * Len(breakpoints)) |->
                           Call(IF i % 2 = 1 THEN "read" ELSE "write", st_tmp.pid)]
                /\ st_pc' = "run_cont"
                /\ UNCHANGED sessionVars
    /\ UNCHANGED <<st_run, dwarfVars, addrVars, walkVars>>

\* cont(pid, None) of run_program
run_cont ==
    /\ st_pc = "run_cont"
    /\ st_log' = Append(st_log, Call("cont", st_tmp.pid))
    /\ st_run' = SetRun(st_tmp.pid, "running")
    /\ st_pc' = "run_wait"
    /\ UNCHANGED <<sessionVars, st_tmp, dwarfVars, addrVars, walkVars>>

\* the wait after the cont of run_program
run_wait ==
    /\ st_pc = "run_wait"
    /\ st_log' = Append(st_log, Call("wait", st_tmp.pid))
    /\ \E status \in ContAndWait(st_tmp.mem, st_tmp.proc_map.begin, st_tmp.rip) :
         IF status.kind = "Exited"
         THEN /\ st_run' = SetRun(st_tmp.pid, "exited")
              /\ StepPanic("run", "Child exited")
         ELSE /\ st_run' = SetRun(st_tmp.pid, "stopped")
              /\ st_tmp' = [st_tmp EXCEPT !.rip = status.rip, !.reason = status.reason,
                                          !.status = status]
              /\ st_pc' = "run_line"
              /\ UNCHANGED sessionVars
    /\ UNCHANGED <<dwarfVars, addrVars, walkVars>>

\* get_line_from_pid, then the record is assigned
run_line ==
    /\ st_pc = "run_line"
    /\ st_log' = Append(st_log, Call("get_line_from_pid", st_tmp.pid))
    /\ \E line \in LineLookups :
         IF line = "Err"
         THEN /\ StepReturn("run", "Err", "Couldn't find the source code for the address")
              /\ UNCHANGED <<running_program, child>>
         ELSE /\ StepReturn("run", "Ok", "Reached breakpoint")
              /\ running_program' =
                    Some([proc_map |-> st_tmp.proc_map,
                          set_breakpoints |-> collect(st_tmp.pairs, EmptyMap),
                          pid |-> st_tmp.pid,
                          last_status |-> WaitStatus(st_tmp.pid, st_tmp.status)])
              /\ child' = [pid |-> st_tmp.pid, mem |-> st_tmp.mem, rip |-> st_tmp.rip,
                           reason |-> st_tmp.reason]
    /\ UNCHANGED <<alive, binary, breakpoints, next_pid, stdin_line>>
    /\ UNCHANGED <<st_run, dwarfVars, addrVars, walkVars>>

\* continue_program up to the test of the last status
continue_begin ==
    /\ st_pc = "prompt" /\ alive
    /\ running_program.some /\ binary.some
    /\ stdin_line' = NoLine
    /\ st_log' = <<>>
    /\ LET last == running_program.val.last_status
           trapped == last.kind = "Stopped" /\ last.signal = "SIGTRAP"
       IN  /\ st_tmp' = [pid |-> running_program.val.pid, trapped |-> trapped, rip |-> 0]
           /\ st_pc' = IF trapped THEN "restore_regs" ELSE "continue_cont"
    /\ output' = Pending("continue")
    /\ UNCHANGED <<alive, binary, running_program, breakpoints, child, next_pid>>
    /\ UNCHANGED <<st_run, dwarfVars, addrVars, walkVars>>

\* run_original_breakpoint_instruction: getregs, rip -= 1, setregs
restore_regs ==
    /\ st_pc = "restore_regs"
    /\ st_log' = st_log \o <<Call("getregs", st_tmp.pid), Call("setregs", st_tmp.pid)>>
    /\ child' = [child EXCEPT !.rip = SubU(child.rip, 1)]
    /\ st_tmp' = [st_tmp EXCEPT !.rip = SubU(child.rip, 1)]
    /\ st_pc' = "restore_word"
    /\ UNCHANGED <<alive, binary, running_program, breakpoints, next_pid, output, stdin_line>>
    /\ UNCHANGED <<st_run, dwarfVars, addrVars, walkVars>>

\* the original word is looked up and written back
restore_word ==
    /\ st_pc = "restore_word"
    /\ LET set_breakpoints == running_program.val.set_breakpoints IN
       IF st_tmp.rip \notin DOMAIN set_breakpoints \/ ~WordMapped(child.mem, st_tmp.rip)
       THEN StepPanic("continue", "run_original_breakpoint_instruction") /\ UNCHANGED st_log
       ELSE /\ child' = [child EXCEPT
                            !.mem = ptrace_write(child.mem, st_tmp.rip,
                                                 set_breakpoints[st_tmp.rip])]
            /\ st_log' = Append(st_log, Call("write_original", st_tmp.pid))
            /\ st_pc' = "restore_step"
            /\ UNCHANGED <<alive, binary, running_program, breakpoints, next_pid, output,
                           stdin_line, st_tmp>>
    /\ UNCHANGED <<st_run, dwarfVars, addrVars, walkVars>>

\* do_step: step(pid, None)
restore_step ==
    /\ st_pc = "restore_step"
    /\ st_log' = Append(st_log, Call("step", st_tmp.pid))
    /\ st_run' = SetRun(st_tmp.pid, "running")
    /\ st_pc' = after_step_pc
    /\ UNCHANGED <<sessionVars, st_tmp, dwarfVars, addrVars, walkVars>>

\* do_step: the wait after the step
step_wait ==
    /\ st_pc = "step_wait"
    /\ st_log' = Append(st_log, Call("wait", st_tmp.pid))
    /\ \E stepped \in StepAndWait(child.mem, running_program.val.proc_map.begin, child.rip) :
         IF stepped.kind = "Exited"
         THEN /\ st_run' = SetRun(st_tmp.pid, "exited")
              /\ StepPanic("continue", "Child exited")
         ELSE /\ st_run' = SetRun(st_tmp.pid, "stopped")
              /\ child' = [child EXCEPT !.rip = stepped.rip]
              /\ st_pc' = "restore_rearm"
              /\ UNCHANGED <<alive, binary, running_program, breakpoints, next_pid, output,
                             stdin_line, st_tmp>>
    /\ UNCHANGED <<dwarfVars, addrVars, walkVars>>

\* the word with the trap in its low byte is written back
restore_rearm ==
    /\ st_pc = "restore_rearm"
    /\ st_log' = Append(st_log, Call("write_trap", st_tmp.pid))
    /\ child' = [child EXCEPT
                    !.mem = ptrace_write(child.mem, st_tmp.rip,
                                add_trap_instruction(
                                    running_program.val.set_breakpoints[st_tmp.rip]))]
    /\ st_pc' = "continue_cont"
    /\ UNCHANGED <<alive, binary, running_program, breakpoints, next_pid, output,
                   stdin_line, st_tmp>>
    /\ UNCHANGED <<st_run, dwarfVars, addrVars, walkVars>>

\* cont(pid, None) of continue_program
continue_cont ==
    /\ st_pc = "continue_cont"
    /\ st_log' = Append(st_log, Call("cont", st_tmp.pid))
    /\ st_run' = SetRun(st_tmp.pid, "running")
    /\ st_pc' = after_cont_pc
    /\ UNCHANGED <<sessionVars, st_tmp, dwarfVars, addrVars, walkVars>>

\* the wait after the cont of continue_program; last_status is assigned
continue_wait ==
    /\ st_pc = "continue_wait"
    /\ st_log' = Append(st_log, Call("wait", st_tmp.pid))
    /\ \E status \in ContAndWait(child.mem, running_program.val.proc_map.begin, child.rip) :
         IF status.kind = "Exited"
         THEN /\ st_run' = SetRun(st_tmp.pid, "exited")
              /\ StepPanic("continue", "Child exited")
         ELSE /\ st_run' = SetRun(st_tmp.pid, "stopped")
              /\ running_program' =
                    Some([running_program.val EXCEPT
                             !.last_status = WaitStatus(st_tmp.pid, status)])
              /\ child' = [child EXCEPT !.rip = status.rip, !.reason = status.reason]
              /\ st_pc' = "continue_line"
              /\ UNCHANGED <<alive, binary, breakpoints, next_pid, output, stdin_line, st_tmp>>
    /\ UNCHANGED <<dwarfVars, addrVars, walkVars>>

\* get_line_from_pid of continue_program
continue_line ==
    /\ st_pc = "continue_line"
    /\ st_log' = Append(st_log, Call("get_line_from_pid", st_tmp.pid))
    /\ \E line \in LineLookups :
         IF line = "Err"
         THEN StepReturn("continue", "Err", "Couldn't find the source code for the address")
         ELSE StepReturn("continue", "Ok", "Reached breakpoint")
    /\ UNCHANGED <<alive, binary, running_program, breakpoints, child, next_pid, stdin_line>>
    /\ UNCHANGED <<st_run, dwarfVars, addrVars, walkVars>>

\* print_var: get_address_of_variable(name, pid), which may fail
print_lookup ==
    /\ st_pc = "prompt" /\ alive
    /\ running_program.some /\ binary.some
    /\ stdin_line' = NoLine
    /\ st_log' = <<Call("get_address_of_variable", running_program.val.pid)>>
    /\ \E lookup \in VariableLookups :
         IF lookup.kind = "Panic"
         THEN /\ alive' = FALSE
              /\ output' = [cmd |-> "print", kind |-> "Panic", msg |-> lookup.msg]
              /\ st_pc' = "dead"
              /\ UNCHANGED <<binary, running_program, breakpoints, child, next_pid, st_tmp>>
         ELSE /\ IF lookup.kind = "Ok"
                 THEN /\ st_pc' = "print_read"
                      /\ st_tmp' = [pid |-> running_program.val.pid]
                      /\ output' = Pending("print")
                 ELSE StepReturn("print", "Err", lookup.msg)
              /\ UNCHANGED <<alive, binary, running_program, breakpoints, child, next_pid>>
    /\ UNCHANGED <<st_run, dwarfVars, addrVars, walkVars>>

\* print_var: ptrace::read of the variable's word
print_read ==
    /\ st_pc = "print_read"
    /\ st_log' = Append(st_log, Call("read", st_tmp.pid))
    /\ StepReturn("print", "Ok", "")
    /\ UNCHANGED <<alive, binary, running_program, breakpoints, child, next_pid, stdin_line>>
    /\ UNCHANGED <<st_run, dwarfVars, addrVars, walkVars>>

NextSteps ==
    \/ prompt_command
    \/ run_fork \/ run_wait_exec \/ run_setup \/ run_cont \/ run_wait \/ run_line
    \/ continue_begin \/ restore_regs \/ restore_word \/ restore_step \/ step_wait
    \/ restore_rearm \/ continue_cont \/ continue_wait \/ continue_line
    \/ print_lookup \/ print_read \/ read_line

SpecSteps == Init /\ [][NextSteps]_vars

(***************************************************************************)
(* Properties of the session (Spec).                                       *)
(***************************************************************************)
RunSucceeded == output.cmd = "run" /\ output.kind = "Ok" /\ output.msg = "Reached breakpoint"
ContinueReturned == output.cmd = "continue" /\ output.kind = "Ok"
Loaded == output.cmd = "load" /\ output.msg = "Binary loaded"

\* the byte the child's code holds at a runtime address before any trap
OriginalByte(addr) == InitialMemory(running_program.val.proc_map)[addr]

\* C1: every breakpoint of the session's list is a key of the loaded
\* binary's possible_breakpoints, in every reachable state, also after a
\* confirmed load of another binary.
C1_BreakpointsAreKeys ==
    binary.some =>
        \A i \in DOMAIN breakpoints : breakpoints[i] \in DOMAIN binary.val.possible_breakpoints

\* C2: after run succeeds, every breakpoint of the list has exactly one entry
\* of set_breakpoints, at its address plus map base minus map offset, and the
\* child's byte at that address is 0xCC.
C2_RunInstallsEveryBreakpoint ==
    RunSucceeded =>
        \A i \in DOMAIN breakpoints :
            LET proc_map == running_program.val.proc_map
                va == binary.val.possible_breakpoints[breakpoints[i]]
                key == (va + proc_map.begin - proc_map.offset) % AddrMod
            IN  /\ Cardinality({k \in DOMAIN running_program.val.set_breakpoints : k = key}) = 1
                /\ child.mem[key] = TRAP_INSTRUCTION

\* C2 witness: a run that succeeded with two different breakpoints.
C2_Witness ==
    /\ RunSucceeded
    /\ Len(breakpoints) = 2
    /\ breakpoints[1] # breakpoints[2]
    /\ Cardinality(DOMAIN running_program.val.set_breakpoints) = 2

\* C3: for every key of set_breakpoints, the low byte of the recorded
\* original word is the byte the child's code held there before any trap
\* was installed, whatever list the user registered.
C3_OriginalWordKeepsInstructionByte ==
    running_program.some =>
        \A k \in DOMAIN running_program.val.set_breakpoints :
            running_program.val.set_breakpoints[k][1] = OriginalByte(k)

\* C4: whenever continue has returned at a stop, every key of set_breakpoints
\* has the byte 0xCC at its address in the child's memory.
C4_TrapsArmedAfterContinue ==
    (ContinueReturned /\ running_program.some) =>
        \A k \in DOMAIN running_program.val.set_breakpoints : child.mem[k] = TRAP_INSTRUCTION

\* C5 as stated: after continue returns at a breakpoint, the child's
\* instruction pointer is a key of set_breakpoints.
C5_RipIsKey ==
    (ContinueReturned /\ child.reason = "int3") =>
        child.rip \in DOMAIN running_program.val.set_breakpoints

\* C5 amended: after continue returns at a breakpoint, the child's
\* instruction pointer is one past a key of set_breakpoints (the trap byte
\* has been executed).
C5_RipIsOnePastKey ==
    (ContinueReturned /\ child.reason = "int3") =>
        SubU(child.rip, 1) \in DOMAIN running_program.val.set_breakpoints

\* C5 witness: continue has returned at a breakpoint.
C5_Witness ==
    /\ ContinueReturned
    /\ child.reason = "int3"
    /\ child.mem[SubU(child.rip, 1)] = TRAP_INSTRUCTION

\* C6: a RunningProgram record implies a LoadedBinary.
C6_RunningImpliesBinary == running_program.some => binary.some

\* C6 witness: a program is running and a load has since been refused or
\* has failed.
C6_Witness ==
    /\ running_program.some
    /\ output.cmd = "load"
    /\ output.kind = "Err"

\* C7: after a successful load no RunningProgram record is present.
C7_LoadLeavesNoRunningProgram == Loaded => ~running_program.some

(***************************************************************************)
(* Properties of the breakpoint enumeration (SpecDwarf).                   *)
(***************************************************************************)
\* the rows of a sequence that name a (path, line), as [key, address], in
\* row order
RECURSIVE KeyedRows(_, _)
KeyedRows(files, rows) ==
    IF rows = <<>> THEN <<>>
    ELSE LET row == Head(rows)
             path == extract_path(files, row.file_index)
         IN  IF row.end_sequence \/ ~path.some \/ row.line = 0
             THEN KeyedRows(files, Tail(rows))
             ELSE <<[key |-> Breakpoint(path.val, row.line), address |-> row.address]>>
                  \o KeyedRows(files, Tail(rows))

RECURSIVE KeyedRowsOfSequences(_, _)
KeyedRowsOfSequences(files, seqs) ==
    IF seqs = <<>> THEN <<>>
    ELSE KeyedRows(files, Head(seqs)) \o KeyedRowsOfSequences(files, Tail(seqs))

\* every such row of the line programs, in the order of the traversal:
\* units, then the unit's sequences, then rows
RECURSIVE Traversal(_)
Traversal(units) ==
    IF units = <<>> THEN <<>>
    ELSE (IF Head(units).stmt_list
          THEN KeyedRowsOfSequences(Head(units).files, sequences(Head(units)))
          ELSE <<>>)
         \o Traversal(Tail(units))

AddressesOf(units, key) ==
    {Traversal(units)[i].address :
        i \in {j \in DOMAIN Traversal(units) : Traversal(units)[j].key = key}}

FirstAddressOf(units, key) ==
    LET rows == Traversal(units)
        first == CHOOSE i \in DOMAIN rows :
                    rows[i].key = key /\ \A j \in 1 .. (i - 1) : rows[j].key # key
    IN  rows[first].address

\* C8: the address stored for a key is the minimum address among all the
\* rows, of all sequences of all units, that canonicalize to the key.
C8_StoredAddressIsMinimum ==
    dw_pc = "done" =>
        \A key \in DOMAIN dw_result :
            \A a \in AddressesOf(dw_units, key) : dw_result[key] <= a

\* C9: the address stored for a key is the first one met for it in the
\* traversal; no later row and no later sequence replaces it.
C9_FirstAddressIsKept ==
    dw_pc = "done" =>
        \A key \in DOMAIN dw_result : dw_result[key] = FirstAddressOf(dw_units, key)

(***************************************************************************)
(* Properties of the address translation (SpecAddr).                       *)
(***************************************************************************)
\* no step of  va + base - off  and of  runtime - base + off  leaves 0 .. 2^w - 1

\* neither translation of the round trip leaves the unsigned range
NoOverflow(va, proc_map) ==
    /\ ~forward_overflows(va, proc_map)
    /\ ~back_overflows(real_address(va, proc_map), proc_map)

RowsAt(units, address) == SelectSeq(Traversal(units), LAMBDA r : r.address = address)

\* C11 as stated: for every entry (bp -> addr) of possibleBreakpoints, the
\* address-to-line lookup of addr returns bp's file and line.
C11_LookupReturnsBreakpoint ==
    dw_pc = "looked" =>
        /\ dw_line.line.some
        /\ Breakpoint(dw_line.line.val.path, dw_line.line.val.line_number) = dw_line.bp.val

\* C11 amended: the lookup of the address stored for bp succeeds and returns
\* the file and line of the first row, in traversal order, at that address;
\* that is bp's file and line when no row of another line shares the address.
C11_LookupReturnsFirstRowAtAddress ==
    dw_pc = "looked" =>
        LET rows == RowsAt(dw_units, dw_line.address)
            found == Breakpoint(dw_line.line.val.path, dw_line.line.val.line_number)
        IN  /\ dw_line.line.some
            /\ rows # <<>>
            /\ found = rows[1].key
            /\ found \in DOMAIN dw_result
            /\ (\A i \in DOMAIN rows : rows[i].key = rows[1].key) => found = dw_line.bp.val

\* C11 witness: a lookup that returns the breakpoint asked for, in a line
\* program with rows for two lines.
C11_Witness ==
    /\ dw_pc = "looked"
    /\ dw_line.line.some
    /\ Breakpoint(dw_line.line.val.path, dw_line.line.val.line_number) = dw_line.bp.val
    /\ Cardinality(DOMAIN dw_result) = 2

(***************************************************************************)
(* Error handling and frame properties of the session (Spec).              *)
(***************************************************************************)
\* the messages of the user errors: no binary, a malformed or unknown
\* breakpoint, no running program
UserErrorMessages ==
    {"Please load a binary first", "You need to load a binary first", "Missing :",
     "Couldn't parse line number", "Not a valid breakpoint position",
     "You need to run a program first"}

ContextUnchanged ==
    /\ binary' = binary
    /\ breakpoints' = breakpoints
    /\ running_program' = running_program

\* C12: a command that ends with a user error returns its message, is not
\* fatal, and leaves binary, breakpoint list and running-program record as
\* they were.
C12_UserErrorsChangeNothing ==
    [][output'.msg \in UserErrorMessages => (alive' /\ ContextUnchanged)]_vars

\* C12 witness: an invalid breakpoint position was refused while a program
\* was running and a breakpoint registered.
C12_Witness ==
    /\ output.msg = "Not a valid breakpoint position"
    /\ alive
    /\ running_program.some
    /\ breakpoints # <<>>

\* C13: run with an empty breakpoint list fails with an error, forks no child
\* and leaves the session unchanged; a child is forked only when at least one
\* breakpoint is registered.
C13_NoForkWithoutBreakpoints ==
    [][/\ (output'.msg = "Please set at least one breakpoint first" =>
              /\ output'.kind = "Err"
              /\ alive'
              /\ ContextUnchanged
              /\ UNCHANGED <<child, next_pid>>)
       /\ (next_pid' # next_pid => breakpoints # <<>>)]_vars

\* C13 witness: run was refused for its empty breakpoint list, with a binary
\* loaded.
C13_Witness ==
    /\ output = [cmd |-> "run", kind |-> "Err",
                 msg |-> "Please set at least one breakpoint first"]
    /\ binary.some
    /\ breakpoints = <<>>
    /\ next_pid = 1

\* C14: when load or run asks for confirmation and the answer is anything
\* other than exactly "y", the command is a no-op: binary, breakpoint list and
\* running-program record are unchanged and no child is forked.
C14_DeclinedConfirmationIsNoOp ==
    [][stdin_line' \notin {NoLine, "y"} =>
          /\ alive'
          /\ ContextUnchanged
          /\ UNCHANGED <<child, next_pid>>]_vars

\* C14 witness: a re-run was declined with the answer "Y" while a program
\* was running.
C14_Witness ==
    /\ stdin_line = "Y"
    /\ output = [cmd |-> "run", kind |-> "Ok", msg |-> "The original program is still running"]
    /\ running_program.some

\* C15: when a wait of run, of continue or of the single-step reports that
\* the child exited, the command panics with "Child exited": it reports no
\* reached breakpoint and the debugger, with its session, is gone, so no
\* session holds a record for the exited child afterwards.
C15_ChildExitIsFatal ==
    child.reason = "exit" =>
        /\ output.kind = "Panic"
        /\ output.msg = "Child exited"
        /\ ~alive

\* C15 witness: the child exited during a continue issued at a trap stop.
C15_Witness ==
    /\ child.reason = "exit"
    /\ output.cmd = "continue"
    /\ running_program.some
    /\ running_program.val.last_status.signal = "SIGTRAP"
    /\ child.pid = running_program.val.pid

\* the lowest address of the child's mapping
MapBase(mem) == CHOOSE a \in DOMAIN mem : \A b \in DOMAIN mem : a <= b

\* C16: a confirmed re-run from the stopped-at-trap state that succeeds
\* replaces the RunningProgram record by one for the newly forked child: its
\* pid is the new child's, and the keys of its set_breakpoints are those of
\* the whole current breakpoint list translated by the new child's map, with
\* nothing carried over.
C16_RerunReplacesRecord ==
    [][(/\ running_program.some
        /\ running_program.val.last_status.signal = "SIGTRAP"
        /\ output'.cmd = "run"
        /\ output'.msg = "Reached breakpoint")
       => LET old == running_program.val
              new == running_program'.val
          IN  /\ running_program'.some
              /\ new.pid = next_pid
              /\ new.pid # old.pid
              /\ child'.pid = new.pid
              /\ new.proc_map.begin = MapBase(child'.mem)
              /\ new.last_status.pid = new.pid
              /\ DOMAIN new.set_breakpoints =
                    {real_address(binary.val.possible_breakpoints[breakpoints[i]],
                                  new.proc_map) : i \in DOMAIN breakpoints}]_vars

\* C16 witness: a confirmed re-run succeeded; the second child is mapped at
\* another base than the model's first choice.
C16_Witness ==
    /\ output = [cmd |-> "run", kind |-> "Ok", msg |-> "Reached breakpoint"]
    /\ stdin_line = "y"
    /\ running_program.some
    /\ running_program.val.pid = 2
    /\ running_program.val.proc_map.begin = 32
    /\ Len(breakpoints) = 2

\* C18: the last wait status is a SIGTRAP stop only when the child stopped
\* at a key of set_breakpoints, so the lookup of the saved original word at
\* (instruction pointer - 1), which continue makes for such a status, finds
\* an entry.
C18_PendingTrapIsAtKey ==
    (/\ alive
     /\ running_program.some
     /\ running_program.val.last_status.kind = "Stopped"
     /\ running_program.val.last_status.signal = "SIGTRAP")
    => SubU(child.rip, 1) \in DOMAIN running_program.val.set_breakpoints

(***************************************************************************)
(* Properties of the handlers' steps (SpecSteps).                          *)
(***************************************************************************)
\* the calls of the current handler, by name
LogOps == [i \in DOMAIN st_log |-> st_log[i].op]

\* C17: when continue finds a SIGTRAP stop as last status, it has, by the
\* time the child is resumed with cont, moved rip back by one, written the
\* original word, single-stepped and waited, and written the trap word back,
\* in this order; and the child is resumed with cont only while no breakpoint
\* address holds its original instruction byte.
C17_RestoreOrderBeforeCont ==
    (st_pc = "continue_wait" /\ st_tmp.trapped) =>
        /\ LogOps = <<"getregs", "setregs", "write_original", "step", "wait",
                      "write_trap", "cont">>
        /\ \A k \in DOMAIN running_program.val.set_breakpoints :
              child.mem[k] # OriginalByte(k)

\* the calls that read or write the child's memory or registers
AccessOps ==
    {"read", "write", "write_original", "write_trap", "getregs", "setregs",
     "get_line_from_pid", "get_address_of_variable"}

\* the calls that resume the child
ResumeOps == {"cont", "step"}

\* C19: every read or write of the child's memory or registers is made while
\* the child is stopped: after a wait has reported a stop and before the next
\* resume.
C19_AccessOnlyWhileStopped ==
    \A i \in DOMAIN st_log : st_log[i].op \in AccessOps => st_log[i].run = "stopped"

\* C19 witness: continue has installed, restored and re-armed traps and read
\* the registers, the child stopped at each call.
C19_Witness ==
    /\ st_pc = "returned"
    /\ output = [cmd |-> "continue", kind |-> "Ok", msg |-> "Reached breakpoint"]
    /\ \E i \in DOMAIN st_log : st_log[i].op = "write_trap" /\ st_log[i].run = "stopped"
    /\ st_log[Len(st_log)].op = "get_line_from_pid"

\* C20: every call that resumes the child is followed at once by a wait on
\* it, and no command is read while a child is running.
C20_ResumePairedWithWait ==
    /\ \A i \in DOMAIN st_log :
          st_log[i].op \in ResumeOps =>
              IF i < Len(st_log)
              THEN st_log[i + 1].op = "wait" /\ st_log[i + 1].pid = st_log[i].pid
              ELSE st_pc \in {"run_wait", "continue_wait", "step_wait"}
    /\ st_pc \in {"prompt", "returned"} =>
          \A pid \in DOMAIN st_run : st_run[pid] # "running"

\* C20 witness: a continue that single-stepped and resumed the child has
\* returned, both children of the session stopped.
C20_Witness ==
    /\ st_pc = "returned"
    /\ output.cmd = "continue"
    /\ \E i \in DOMAIN st_log : st_log[i].op = "step"
    /\ \E i \in DOMAIN st_log : st_log[i].op = "cont"
    /\ DOMAIN st_run = {1, 2}

(***************************************************************************)
(* Frame properties of the breakpoint list and of set_breakpoints (Spec).  *)
(***************************************************************************)
\* the step is a breakpoint command that reported "Breakpoint added"
BreakpointAdded ==
    output' = [cmd |-> "breakpoint", kind |-> "Ok", msg |-> "Breakpoint added"]

\* C21: the breakpoint list is append-only: a breakpoint command that reports
\* "Breakpoint added" appends exactly one element, and every other step
\* (load, run, continue, print, a failed or declined command) leaves the
\* list as it was.
C21_BreakpointListIsAppendOnly ==
    [][IF BreakpointAdded
       THEN \E b \in DOMAIN binary.val.possible_breakpoints :
               breakpoints' = Append(breakpoints, b)
       ELSE breakpoints' = breakpoints]_vars

\* C21 witness: a second, different breakpoint has been appended behind the
\* first.
C21_Witness ==
    /\ output = [cmd |-> "breakpoint", kind |-> "Ok", msg |-> "Breakpoint added"]
    /\ Len(breakpoints) = 2
    /\ breakpoints[1] # breakpoints[2]

\* the set_breakpoints map of the session's RunningProgram, if there is one
SetBreakpointsOf(rp) == IF rp.some THEN Some(rp.val.set_breakpoints) ELSE None

\* C22: set_breakpoints is written only by run, when it builds the record,
\* and by continue: a step of load, breakpoint or print, or of a run that
\* builds no record, leaves its keys and recorded original words unchanged.
C22_SetBreakpointsWrittenByRunAndContinue ==
    [][SetBreakpointsOf(running_program') # SetBreakpointsOf(running_program) =>
          \/ output' = [cmd |-> "run", kind |-> "Ok", msg |-> "Reached breakpoint"]
          \/ output'.cmd = "continue"]_vars

\* C22 witness: load, breakpoint or print has acted on a session whose
\* running program holds recorded original words.
C22_Witness ==
    /\ output.cmd \in {"load", "breakpoint", "print"}
    /\ alive
    /\ running_program.some
    /\ DOMAIN running_program.val.set_breakpoints # {}

(***************************************************************************)
(* Properties of the variable lookup (SpecWalk).                           *)
(***************************************************************************)
\* the subprogram DIEs among the ancestors of DIE i
SubprogramAncestors(unit, i) ==
    {a \in Ancestors(unit.parent, i) : unit.die[a].tag = "subprogram"}

\* the lookup is at a variable DIE
AtVariable == wk_pc # "off" /\ wk_pos > 0 /\ wk_unit.die[wk_pos].tag = "variable"

\* C23: whenever the walk visits a variable DIE, the stack holds exactly the
\* subprogram DIEs that are ancestors of it, each with its depth, the
\* outermost first, so that its top is the nearest enclosing subprogram.
C23_StackHoldsEnclosingSubprograms ==
    AtVariable =>
        /\ {wk_stack[k].die : k \in DOMAIN wk_stack} = SubprogramAncestors(wk_unit, wk_pos)
        /\ Len(wk_stack) = Cardinality(SubprogramAncestors(wk_unit, wk_pos))
        /\ \A k \in DOMAIN wk_stack : wk_stack[k].depth = DieDepth(wk_unit, wk_stack[k].die)
        /\ \A k \in 1 .. (Len(wk_stack) - 1) : wk_stack[k].depth < wk_stack[k + 1].depth

\* C23 witness: a variable is visited inside a subprogram after the walk has
\* left another subprogram, which is not among its ancestors.
C23_Witness ==
    /\ AtVariable
    /\ wk_stack # <<>>
    /\ \E j \in 1 .. (wk_pos - 1) :
          /\ wk_unit.die[j].tag = "subprogram"
          /\ j \notin Ancestors(wk_unit.parent, wk_pos)

\* the variable DIE the lookup is at has the name asked for and a construct
\* the lookup does not support: a type that is no base type, a location
\* list, an expression that yields no address, or an enclosing subprogram
\* whose frame base is no register
AtUnsupportedConstruct ==
    /\ AtVariable
    /\ wk_unit.die[wk_pos].name = LookupName
    /\ \/ wk_unit.die[wk_pos].type # "base"
       \/ wk_unit.die[wk_pos].location \in {"loclist", "value"}
       \/ /\ wk_unit.die[wk_pos].location = "fbreg"
          /\ wk_stack # <<>>
          /\ wk_unit.die[wk_stack[Len(wk_stack)].die].frame_base # "register"

\* C24: an unsupported DWARF construct met while resolving the variable ends
\* the lookup with an error other than "Couldn't find the variable"; the
\* lookup neither panics nor goes on to the next DIE.
C24_UnsupportedConstructIsDistinctError ==
    AtUnsupportedConstruct =>
        /\ wk_pc = "done"
        /\ wk_result.kind = "Err"
        /\ wk_result.msg # "Couldn't find the variable"

(***************************************************************************)
(* Breakpoints entered while a program is running (Spec).                  *)
(***************************************************************************)
\* the last wait of the running program reported a stop by SIGTRAP
StoppedAtTrap ==
    /\ running_program.some
    /\ running_program.val.last_status.kind = "Stopped"
    /\ running_program.val.last_status.signal = "SIGTRAP"

\* breakpoint b of the list has no installed trap: its address in the child
\* is no key of set_breakpoints and does not hold the trap byte
HasNoTrap(b, bin, rp, c) ==
    /\ bin.some /\ rp.some
    /\ b \in DOMAIN bin.val.possible_breakpoints
    /\ LET addr == real_address(bin.val.possible_breakpoints[b], rp.val.proc_map)
       IN  /\ addr \notin DOMAIN rp.val.set_breakpoints
           /\ addr \in DOMAIN c.mem => c.mem[addr] # TRAP_INSTRUCTION

\* the step is a run that built a new RunningProgram
RunBuiltRecord ==
    output' = [cmd |-> "run", kind |-> "Ok", msg |-> "Reached breakpoint"]

C26_RunningProgramHasBreakpoints ==
    running_program.some =>
        /\ breakpoints # <<>>
        /\ DOMAIN running_program.val.set_breakpoints # {}

\* C26 witness: the session holds the record of a second run, made with two
\* breakpoints in the list.
C26_Witness ==
    /\ running_program.some
    /\ running_program.val.pid = 2
    /\ Len(breakpoints) = 2
    /\ alive

====
